---- MODULE Spec2Model ----
(***************************************************************************)
(* Timesheet relay bot (src/app.js, the tracker-bearing version, lines     *)
(* 196-320): the message handler, the weekly tracker and the two cron      *)
(* callbacks, with every await of the handler as a suspension point.       *)
(*                                                                         *)
(* Strings that the code inspects character by character (file names, the  *)
(* extracted report text) are sequences of tokens; strings that the code   *)
(* only builds are TLA+ strings.                                           *)
(***************************************************************************)
EXTENDS Integers, Sequences, FiniteSets, TLC

(* ------------------------------ bounds -------------------------------- *)
\* number of inbound message events of a run
MaxEvents == 2
\* number of reminder posts the deadline check may issue in a run
MaxReminders == 1
\* distinct clock readings new Date() may return
MaxTime == 1

Events == 1..MaxEvents
Times == 1..MaxTime

(* --------------------------- configuration ---------------------------- *)
EmployeeName == "Roxie"
HrUserId == "U_HR"
RoxieUserId == "U_ROXIE"
NotSet == "undefined"
\* values of process.env.FRIDAY_ONLY
FridayOnlyValues == {"false", NotSet}
\* values of config.roxieUserId
RoxieValues == {RoxieUserId, NotSet}
SenderChannels == {"D_MANAGER"}

(* ------------------------- file names (tokens) ------------------------ *)
LowerTok(t) ==
    CASE t = "Toggl"   -> "toggl"
      [] t = "TOGGL"   -> "toggl"
      [] t = "Track"   -> "track"
      [] t = "Summary" -> "summary"
      [] t = ".PDF"    -> ".pdf"
      [] t = "Invoice" -> "invoice"
      [] OTHER         -> t

toLowerCase(name) == [i \in 1..Len(name) |-> LowerTok(name[i])]

endsWith(name, suffix) == Len(name) > 0 /\ name[Len(name)] = suffix

includes(name, part) == \E i \in 1..Len(name) : name[i] = part

File(mimetype, name) == [mimetype |-> mimetype, name |-> name]

\* event.files of the inbound events considered
FileLists ==
    { <<>>,
      << File("image/png", <<"photo", ".png">>) >>,
      << File("application/pdf", <<"Invoice", ".pdf">>) >>,
      << File("image/png", <<"Toggl", ".png">>),
         File("application/octet-stream", <<"Toggl", "_", "Summary", ".PDF">>) >>,
      << File("application/pdf", <<"Invoice", ".pdf">>),
         File("application/pdf", <<"toggl", ".pdf">>) >>,
      << File("application/pdf", <<"time", "Track", "er">>) >> }

\* an inbound message event: files may be absent altogether
EventInputs ==
    { [hasFiles |-> FALSE, files |-> <<>>, channel |-> c] : c \in SenderChannels }
    \cup { [hasFiles |-> TRUE, files |-> fs, channel |-> c] :
              fs \in FileLists, c \in SenderChannels }

NoEvent == [hasFiles |-> FALSE, files |-> <<>>, channel |-> NotSet]

(* ----------------------- report text (tokens) ------------------------- *)
Word(v) == [k |-> "word", v |-> v, d |-> <<>>]
Num(d)  == [k |-> "num", v |-> "", d |-> d]
DateTok(v) == [k |-> "date", v |-> v, d |-> <<>>]
Ws    == [k |-> "ws", v |-> " ", d |-> <<>>]
Colon == [k |-> "colon", v |-> ":", d |-> <<>>]
Dash  == [k |-> "dash", v |-> "-", d |-> <<>>]

UpperTok(v) ==
    CASE v = "total" -> "TOTAL"
      [] v = "Total" -> "TOTAL"
      [] v = "hours" -> "HOURS"
      [] v = "Hours" -> "HOURS"
      [] OTHER       -> v

\* data.text of the documents considered
TextSamples ==
    { \* TOTAL HOURS: 5:45:10  01/05/2024 - 01/11/2024
      << Word("TOTAL"), Ws, Word("HOURS"), Colon, Ws, Num(<<5>>), Colon, Num(<<4, 5>>),
         Colon, Num(<<1, 0>>), Ws, DateTok("01/05/2024"), Ws, Dash, Ws,
         DateTok("01/11/2024") >>,
      \* Total hours 1:59:30
      << Word("Total"), Ws, Word("hours"), Ws, Num(<<1>>), Colon, Num(<<5, 9>>), Colon,
         Num(<<3, 0>>) >>,
      \* 01/05/2024-01/11/2024 Summary
      << DateTok("01/05/2024"), Dash, DateTok("01/11/2024"), Ws, Word("Summary") >> }

NoText == <<>>

RECURSIVE parseInt(_)
parseInt(d) ==
    IF Len(d) = 0 THEN 0
    ELSE 10 * parseInt(SubSeq(d, 1, Len(d) - 1)) + d[Len(d)]

IsWord(text, i, w) ==
    i \in 1..Len(text) /\ text[i].k = "word" /\ UpperTok(text[i].v) = w

IsNum(text, i) == i \in 1..Len(text) /\ text[i].k = "num"

IsKind(text, i, kind) == i \in 1..Len(text) /\ text[i].k = kind

\* the position after the longest run of tokens of the given kinds from i on
RECURSIVE SkipKinds(_, _, _)
SkipKinds(text, i, kinds) ==
    IF i \in 1..Len(text) /\ text[i].k \in kinds
    THEN SkipKinds(text, i + 1, kinds)
    ELSE i

\* /TOTAL\s*HOURS[:\s]*(\d{1,3}):(\d{2}):(\d{2})/i matched at token i:
\* the position of the hours group, or 0
TotalHoursAt(text, i) ==
    IF ~IsWord(text, i, "TOTAL") THEN 0
    ELSE LET j == SkipKinds(text, i + 1, {"ws"})
         IN IF ~IsWord(text, j, "HOURS") THEN 0
            ELSE LET h == SkipKinds(text, j + 1, {"colon", "ws"})
                 IN IF /\ IsNum(text, h) /\ Len(text[h].d) \in 1..3
                       /\ IsKind(text, h + 1, "colon")
                       /\ IsNum(text, h + 2) /\ Len(text[h + 2].d) = 2
                       /\ IsKind(text, h + 3, "colon")
                       /\ IsNum(text, h + 4) /\ Len(text[h + 4].d) >= 2
                    THEN h
                    ELSE 0

\* text.match(...) for the total hours: the hours group of the leftmost match, or 0
totalHoursMatch(text) ==
    LET hits == {i \in 1..Len(text) : TotalHoursAt(text, i) # 0}
    IN IF hits = {} THEN 0
       ELSE TotalHoursAt(text, CHOOSE i \in hits : \A j \in hits : i <= j)

\* /(\d{2}\/\d{2}\/\d{4})\s*[-]\s*(\d{2}\/\d{2}\/\d{4})/ matched at token i:
\* the position of the second date, or 0
DateRangeAt(text, i) ==
    IF ~IsKind(text, i, "date") THEN 0
    ELSE LET j == SkipKinds(text, i + 1, {"ws"})
         IN IF ~IsKind(text, j, "dash") THEN 0
            ELSE LET m == SkipKinds(text, j + 1, {"ws"})
                 IN IF IsKind(text, m, "date") THEN m ELSE 0

dateRangeMatch(text) ==
    LET hits == {i \in 1..Len(text) : DateRangeAt(text, i) # 0}
    IN IF hits = {} THEN <<>>
       ELSE LET i == CHOOSE i \in hits : \A j \in hits : i <= j
            IN << text[i].v, text[DateRangeAt(text, i)].v >>

ParseErrorMessage == "Could not find TOTAL HOURS in the PDF"

\* parseTogglPdf that also throws when no date range is found
parseRequiresDateRange(text) ==
    LET h == totalHoursMatch(text)
        dr == dateRangeMatch(text)
    IN IF h = 0 \/ dr = <<>>
       THEN [ok |-> FALSE, hours |-> 0, minutes |-> 0, seconds |-> 0,
             dateRange |-> "", message |-> ParseErrorMessage]
       ELSE [ok |-> TRUE,
             hours |-> parseInt(text[h].d),
             minutes |-> parseInt(text[h + 2].d),
             seconds |-> parseInt(SubSeq(text[h + 4].d, 1, 2)),
             dateRange |-> dr[1] \o " - " \o dr[2],
             message |-> ""]


\* parseTogglPdf after the text extraction: ok = FALSE is the thrown Error
parseTogglPdf(text) ==
    LET h == totalHoursMatch(text)
        dr == dateRangeMatch(text)
    IN IF h = 0
       THEN [ok |-> FALSE, hours |-> 0, minutes |-> 0, seconds |-> 0,
             dateRange |-> "", message |-> ParseErrorMessage]
       ELSE [ok |-> TRUE,
             hours |-> parseInt(text[h].d),
             minutes |-> parseInt(text[h + 2].d),
             seconds |-> parseInt(SubSeq(text[h + 4].d, 1, 2)),
             dateRange |-> IF dr = <<>> THEN "this week"
                           ELSE dr[1] \o " - " \o dr[2],
             message |-> ""]

\* roundToNearestMinute rounding up only above 30 seconds
roundUpAboveThirty(hours, minutes, seconds) ==
    LET totalMinutes == hours * 60 + minutes + (IF seconds > 30 THEN 1 ELSE 0)
    IN [hours |-> totalMinutes \div 60, minutes |-> totalMinutes % 60]

\* roundToNearestMinute returning the minute total instead of its remainder
roundKeepsMinuteTotal(hours, minutes, seconds) ==
    LET totalMinutes == hours * 60 + minutes + (IF seconds >= 30 THEN 1 ELSE 0)
    IN [hours |-> totalMinutes \div 60, minutes |-> totalMinutes]


roundToNearestMinute(hours, minutes, seconds) ==
    LET totalMinutes == hours * 60 + minutes + (IF seconds >= 30 THEN 1 ELSE 0)
    IN [hours |-> totalMinutes \div 60, minutes |-> totalMinutes % 60]

\* formatTimeMessage that always writes the plural unit
formatAlwaysPlural(employeeName, roundedTime, dateRange) ==
    LET hours == roundedTime.hours
        minutes == roundedTime.minutes
        s1 == IF hours > 0 THEN ToString(hours) \o " hours" ELSE ""
        s2 == IF minutes > 0
              THEN s1 \o (IF s1 # "" THEN " " ELSE "") \o ToString(minutes) \o " minutes"
              ELSE s1
        timeStr == IF s2 = "" THEN "0 minutes" ELSE s2
    IN employeeName \o "'s time for week of " \o dateRange \o ": *" \o timeStr \o "*"


formatTimeMessage(employeeName, roundedTime, dateRange) ==
    LET hours == roundedTime.hours
        minutes == roundedTime.minutes
        s1 == IF hours > 0
              THEN ToString(hours) \o " hour" \o (IF hours # 1 THEN "s" ELSE "")
              ELSE ""
        s2 == IF minutes > 0
              THEN s1 \o (IF s1 # "" THEN " " ELSE "") \o ToString(minutes)
                      \o " minute" \o (IF minutes # 1 THEN "s" ELSE "")
              ELSE s1
        timeStr == IF s2 = "" THEN "0 minutes" ELSE s2
    IN employeeName \o "'s time for week of " \o dateRange \o ": *" \o timeStr \o "*"

(* ------------------------------- state -------------------------------- *)
VARIABLES
    timesheetReceivedThisWeek,  \* line 217
    lastTimesheetDate,          \* line 218: <<>> is null, <<t>> a Date
    fridayOnlyEnv,              \* process.env.FRIDAY_ONLY
    roxieUserId,                \* config.roxieUserId
    pc,                         \* per event: where its handler invocation stands
    ev,                         \* per event: the event object
    friday,                     \* per event: what isFriday() returns for it
    text,                       \* per event: data.text once extracted
    hrMessage,                  \* per event: the handler's hrMessage
    error,                      \* per event: error.message caught by the handler
    hr,                         \* per event: the chat.postMessage call to HR
    sent,                       \* per event: chat.postMessage calls issued, in order
    steps,                      \* per event: pipeline steps begun, in order
    reminders,                  \* reminder posts issued by the deadline check
    remindersInFlight,          \* reminder posts not yet settled
    hrDeliveredSinceReset,      \* a summary reached HR since the last reset
    lastOp,                     \* the operation that ran last
    arg,                        \* the arguments of a direct call of a pure function
    res                         \* the values such calls returned, in order

vars == << timesheetReceivedThisWeek, lastTimesheetDate, fridayOnlyEnv, roxieUserId,
           pc, ev, friday, text, hrMessage, error, hr, sent, steps, reminders,
           remindersInFlight, hrDeliveredSinceReset, lastOp, arg, res >>

\* the variables of the running program
progVars == << timesheetReceivedThisWeek, lastTimesheetDate, fridayOnlyEnv, roxieUserId,
               pc, ev, friday, text, hrMessage, error, hr, sent, steps, reminders,
               remindersInFlight, hrDeliveredSinceReset, lastOp >>

\* the variables of direct calls of parseTogglPdf, roundToNearestMinute and
\* formatTimeMessage
harness == << arg, res >>

NoArg == [fn |-> "none"]

tracker == << timesheetReceivedThisWeek, lastTimesheetDate >>
config == << fridayOnlyEnv, roxieUserId >>
cronVars == << reminders, remindersInFlight >>

NullDate == <<>>

Msg(channel, body) == [channel |-> channel, text |-> body]

FridayNotice == "I received the timesheet, but I only process on Fridays!"
RetrievalError == "socket hang up"
ExtractionError == "Invalid PDF structure"
DeliveryError == "An API error occurred: channel_not_found"

Init ==
    /\ timesheetReceivedThisWeek = FALSE
    /\ lastTimesheetDate = NullDate
    /\ fridayOnlyEnv \in FridayOnlyValues
    /\ roxieUserId \in RoxieValues
    /\ pc = [e \in Events |-> "idle"]
    /\ ev = [e \in Events |-> NoEvent]
    /\ friday = [e \in Events |-> FALSE]
    /\ text = [e \in Events |-> NoText]
    /\ hrMessage = [e \in Events |-> ""]
    /\ error = [e \in Events |-> ""]
    /\ hr = [e \in Events |-> "none"]
    /\ sent = [e \in Events |-> <<>>]
    /\ steps = [e \in Events |-> <<>>]
    /\ reminders = 0
    /\ remindersInFlight = 0
    /\ hrDeliveredSinceReset = FALSE
    /\ lastOp = "start"
    /\ arg = NoArg
    /\ res = <<>>

(* ---------------------------- intake gate ----------------------------- *)
isPdf(f) == f.mimetype = "application/pdf" \/ endsWith(toLowerCase(f.name), ".pdf")

\* event.files.find(...): the index of the first PDF file, or 0
findPdfFile(files) ==
    LET hits == {i \in 1..Len(files) : isPdf(files[i])}
    IN IF hits = {} THEN 0 ELSE CHOOSE i \in hits : \A j \in hits : i <= j

isTogglExport(fileName) ==
    includes(fileName, "toggl") \/ includes(fileName, "track")
        \/ includes(fileName, "summary")

\* checkFridayOnly as an opt-in: process.env.FRIDAY_ONLY === 'true'
checkFridayOnlyOptIn(env) == env = "true"


checkFridayOnly(env) == env # "false"

\* IntakeGate without the file name check of lines 283-285
IntakeGateSkipsNameCheck(event, env, isFri) ==
    IF ~event.hasFiles \/ Len(event.files) = 0 THEN "return"
    ELSE LET i == findPdfFile(event.files)
         IN IF i = 0 THEN "return"
            ELSE IF checkFridayOnly(env) /\ ~isFri THEN "notice"
            ELSE "process"

\* IntakeGate without the day check of lines 286-291
IntakeGateSkipsDayCheck(event, env, isFri) ==
    IF ~event.hasFiles \/ Len(event.files) = 0 THEN "return"
    ELSE LET i == findPdfFile(event.files)
         IN IF i = 0 THEN "return"
            ELSE IF ~isTogglExport(toLowerCase(event.files[i].name)) THEN "return"
            ELSE "process"


\* lines 280-291: what the handler does with the event before any retrieval
IntakeGate(event, env, isFri) ==
    IF ~event.hasFiles \/ Len(event.files) = 0 THEN "return"
    ELSE LET i == findPdfFile(event.files)
         IN IF i = 0 THEN "return"
            ELSE IF ~isTogglExport(toLowerCase(event.files[i].name)) THEN "return"
            ELSE IF checkFridayOnly(env) /\ ~isFri THEN "notice"
            ELSE "process"

(* --------------------------- message handler -------------------------- *)
\* Catch that posts a fixed text instead of error.message
CatchGenericText(e, message) ==
    /\ error' = [error EXCEPT ![e] = message]
    /\ IF ev[e].channel # NotSet
       THEN /\ sent' = [sent EXCEPT
                   ![e] = Append(@, Msg(ev[e].channel, "Error: something went wrong"))]
            /\ pc' = [pc EXCEPT ![e] = "await_error"]
       ELSE /\ sent' = sent
            /\ pc' = [pc EXCEPT ![e] = "done"]


\* lines 302-305: the catch block
Catch(e, message) ==
    /\ error' = [error EXCEPT ![e] = message]
    /\ IF ev[e].channel # NotSet
       THEN /\ sent' = [sent EXCEPT
                   ![e] = Append(@, Msg(ev[e].channel, "Error: " \o message))]
            /\ pc' = [pc EXCEPT ![e] = "await_error"]
       ELSE /\ sent' = sent
            /\ pc' = [pc EXCEPT ![e] = "done"]

\* lines 278-293: the event arrives and the handler runs to its first await
Message(e) ==
    /\ pc[e] = "idle"
    /\ \E event \in EventInputs, isFri \in BOOLEAN :
        /\ ev' = [ev EXCEPT ![e] = event]
        /\ friday' = [friday EXCEPT ![e] = isFri]
        /\ LET gate == IntakeGate(event, fridayOnlyEnv, isFri)
           IN CASE gate = "return" ->
                     /\ pc' = [pc EXCEPT ![e] = "done"]
                     /\ UNCHANGED << sent, steps >>
                [] gate = "notice" ->
                     /\ sent' = [sent EXCEPT
                            ![e] = Append(@, Msg(event.channel, FridayNotice))]
                     /\ pc' = [pc EXCEPT ![e] = "await_notice"]
                     /\ UNCHANGED steps
                [] OTHER ->
                     /\ steps' = [steps EXCEPT ![e] = Append(@, "retrieve")]
                     /\ pc' = [pc EXCEPT ![e] = "await_download"]
                     /\ UNCHANGED sent
    /\ lastOp' = "message"
    /\ UNCHANGED harness
    /\ UNCHANGED << tracker, config, text, hrMessage, error, hr, cronVars,
                    hrDeliveredSinceReset >>

\* lines 289-290: the Friday notice settles
ResumeNotice(e) ==
    /\ pc[e] = "await_notice"
    /\ \E ok \in BOOLEAN :
        IF ok
        THEN /\ pc' = [pc EXCEPT ![e] = "done"]
             /\ UNCHANGED << sent, error >>
        ELSE Catch(e, DeliveryError)
    /\ lastOp' = "resume"
    /\ UNCHANGED harness
    /\ UNCHANGED << tracker, config, ev, friday, text, hrMessage, hr, steps, cronVars,
                    hrDeliveredSinceReset >>

\* lines 293-294, 243: downloadFile settles; on success pdf(pdfBuffer) is awaited
ResumeDownload(e) ==
    /\ pc[e] = "await_download"
    /\ \E ok \in BOOLEAN :
        IF ok
        THEN /\ steps' = [steps EXCEPT ![e] = Append(@, "parse")]
             /\ pc' = [pc EXCEPT ![e] = "await_extract"]
             /\ UNCHANGED << sent, error >>
        ELSE /\ Catch(e, RetrievalError)
             /\ UNCHANGED steps
    /\ lastOp' = "resume"
    /\ UNCHANGED harness
    /\ UNCHANGED << tracker, config, ev, friday, text, hrMessage, hr, cronVars,
                    hrDeliveredSinceReset >>

\* HrMessage without the rounding step
HrMessageUnrounded(timeData) ==
    formatTimeMessage(EmployeeName,
        [hours |-> timeData.hours, minutes |-> timeData.minutes],
        timeData.dateRange)


\* lines 295-296: the summary built from the parsed time data
HrMessage(timeData) ==
    formatTimeMessage(EmployeeName,
        roundToNearestMinute(timeData.hours, timeData.minutes, timeData.seconds),
        timeData.dateRange)

\* lines 243-252, 294-297: the text extraction settles; the handler parses,
\* rounds, formats and issues the post to HR
ResumeExtract(e) ==
    /\ pc[e] = "await_extract"
    /\ \/ /\ Catch(e, ExtractionError)
          /\ UNCHANGED << text, hrMessage, hr, steps >>
       \/ \E t \in TextSamples :
            LET timeData == parseTogglPdf(t)
            IN /\ text' = [text EXCEPT ![e] = t]
               /\ IF timeData.ok
                  THEN /\ hrMessage' = [hrMessage EXCEPT ![e] = HrMessage(timeData)]
                       /\ steps' = [steps EXCEPT
                              ![e] = @ \o << "round", "format", "deliverHR" >>]
                       /\ sent' = [sent EXCEPT
                              ![e] = Append(@, Msg(HrUserId, HrMessage(timeData)))]
                       /\ hr' = [hr EXCEPT ![e] = "pending"]
                       /\ pc' = [pc EXCEPT ![e] = "await_hr"]
                       /\ UNCHANGED error
                  ELSE /\ Catch(e, timeData.message)
                       /\ UNCHANGED << hrMessage, hr, steps >>
    /\ lastOp' = "resume"
    /\ UNCHANGED harness
    /\ UNCHANGED << tracker, config, ev, friday, cronVars, hrDeliveredSinceReset >>

\* the chat platform completes the post to HR (line 297), before the handler resumes
HrSettle(e) ==
    /\ pc[e] = "await_hr"
    /\ hr[e] = "pending"
    /\ \E ok \in BOOLEAN :
        /\ hr' = [hr EXCEPT ![e] = IF ok THEN "delivered" ELSE "failed"]
        /\ hrDeliveredSinceReset' = (hrDeliveredSinceReset \/ ok)
    /\ lastOp' = "network"
    /\ UNCHANGED harness
    /\ UNCHANGED << tracker, config, pc, ev, friday, text, hrMessage, error, sent, steps,
                    cronVars >>

\* ResumeHr with the tracker update moved into a finally block
ResumeHrMarksOnFailure(e) ==
    /\ pc[e] = "await_hr"
    /\ hr[e] \in {"delivered", "failed"}
    /\ timesheetReceivedThisWeek' = TRUE
    /\ \E t \in Times : lastTimesheetDate' = << t >>
    /\ IF hr[e] = "delivered"
       THEN /\ steps' = [steps EXCEPT ![e] = @ \o << "tracker", "confirm" >>]
            /\ sent' = [sent EXCEPT ![e] = Append(@, Msg(ev[e].channel,
                   "I've forwarded " \o EmployeeName \o "'s time to Erickia:\n> "
                       \o hrMessage[e]))]
            /\ pc' = [pc EXCEPT ![e] = "await_confirm"]
            /\ UNCHANGED error
       ELSE /\ Catch(e, DeliveryError)
            /\ UNCHANGED steps
    /\ lastOp' = "resume"
    /\ UNCHANGED harness
    /\ UNCHANGED << config, ev, friday, text, hrMessage, hr, cronVars,
                    hrDeliveredSinceReset >>


\* lines 297-301: the handler resumes after the post to HR
ResumeHr(e) ==
    /\ pc[e] = "await_hr"
    /\ hr[e] \in {"delivered", "failed"}
    /\ IF hr[e] = "delivered"
       THEN /\ timesheetReceivedThisWeek' = TRUE
            /\ \E t \in Times : lastTimesheetDate' = << t >>
            /\ steps' = [steps EXCEPT ![e] = @ \o << "tracker", "confirm" >>]
            /\ sent' = [sent EXCEPT ![e] = Append(@, Msg(ev[e].channel,
                   "I've forwarded " \o EmployeeName \o "'s time to Erickia:\n> "
                       \o hrMessage[e]))]
            /\ pc' = [pc EXCEPT ![e] = "await_confirm"]
            /\ UNCHANGED error
       ELSE /\ Catch(e, DeliveryError)
            /\ UNCHANGED << tracker, steps >>
    /\ lastOp' = "resume"
    /\ UNCHANGED harness
    /\ UNCHANGED << config, ev, friday, text, hrMessage, hr, cronVars,
                    hrDeliveredSinceReset >>

\* line 301: the confirmation to the sender settles
ResumeConfirm(e) ==
    /\ pc[e] = "await_confirm"
    /\ \E ok \in BOOLEAN :
        IF ok
        THEN /\ pc' = [pc EXCEPT ![e] = "done"]
             /\ UNCHANGED << sent, error >>
        ELSE Catch(e, DeliveryError)
    /\ lastOp' = "resume"
    /\ UNCHANGED harness
    /\ UNCHANGED << tracker, config, ev, friday, text, hrMessage, hr, steps, cronVars,
                    hrDeliveredSinceReset >>

\* line 304: the error notice settles; its rejection leaves the callback
ResumeError(e) ==
    /\ pc[e] = "await_error"
    /\ \E ok \in BOOLEAN :
        pc' = [pc EXCEPT ![e] = IF ok THEN "done" ELSE "rejected"]
    /\ lastOp' = "resume"
    /\ UNCHANGED harness
    /\ UNCHANGED << tracker, config, ev, friday, text, hrMessage, error, hr, sent, steps,
                    cronVars, hrDeliveredSinceReset >>

(* ------------------------------ schedules ----------------------------- *)
\* DeadlineCheck that also starts a new tracking period
DeadlineCheckClears ==
    /\ IF ~timesheetReceivedThisWeek /\ roxieUserId # NotSet
       THEN /\ reminders < MaxReminders
            /\ reminders' = reminders + 1
            /\ remindersInFlight' = remindersInFlight + 1
       ELSE UNCHANGED cronVars
    /\ timesheetReceivedThisWeek' = FALSE
    /\ lastTimesheetDate' = NullDate
    /\ lastOp' = "deadlineCheck"
    /\ UNCHANGED harness
    /\ UNCHANGED << config, pc, ev, friday, text, hrMessage, error, hr, sent,
                    steps, hrDeliveredSinceReset >>


\* DeadlineCheck without the test of timesheetReceivedThisWeek
DeadlineCheckIgnoresTracker ==
    /\ IF roxieUserId # NotSet
       THEN /\ reminders < MaxReminders
            /\ reminders' = reminders + 1
            /\ remindersInFlight' = remindersInFlight + 1
       ELSE UNCHANGED cronVars
    /\ lastOp' = "deadlineCheck"
    /\ UNCHANGED harness
    /\ UNCHANGED << tracker, config, pc, ev, friday, text, hrMessage, error, hr, sent,
                    steps, hrDeliveredSinceReset >>


\* lines 313-317, 270-273: the Friday 5:30 PM check
DeadlineCheck ==
    /\ IF ~timesheetReceivedThisWeek /\ roxieUserId # NotSet
       THEN /\ reminders < MaxReminders
            /\ reminders' = reminders + 1
            /\ remindersInFlight' = remindersInFlight + 1
       ELSE UNCHANGED cronVars
    /\ lastOp' = "deadlineCheck"
    /\ UNCHANGED harness
    /\ UNCHANGED << tracker, config, pc, ev, friday, text, hrMessage, error, hr, sent,
                    steps, hrDeliveredSinceReset >>

\* lines 273-275: the reminder post settles; a failure is caught and logged
ReminderSettle ==
    /\ remindersInFlight > 0
    /\ remindersInFlight' = remindersInFlight - 1
    /\ lastOp' = "network"
    /\ UNCHANGED harness
    /\ UNCHANGED << tracker, config, pc, ev, friday, text, hrMessage, error, hr, sent,
                    steps, reminders, hrDeliveredSinceReset >>

\* resetWeeklyTracker that forgets line 226
resetKeepsDate ==
    /\ timesheetReceivedThisWeek' = FALSE
    /\ lastTimesheetDate' = lastTimesheetDate
    /\ hrDeliveredSinceReset' = FALSE
    /\ lastOp' = "resetWeeklyTracker"
    /\ UNCHANGED harness
    /\ UNCHANGED << config, pc, ev, friday, text, hrMessage, error, hr, sent, steps,
                    cronVars >>


\* resetWeeklyTracker that forgets line 225
resetClearsDateOnly ==
    /\ timesheetReceivedThisWeek' = timesheetReceivedThisWeek
    /\ lastTimesheetDate' = NullDate
    /\ hrDeliveredSinceReset' = FALSE
    /\ lastOp' = "resetWeeklyTracker"
    /\ UNCHANGED harness
    /\ UNCHANGED << config, pc, ev, friday, text, hrMessage, error, hr, sent, steps,
                    cronVars >>


\* lines 224-228, 318: the Monday 6 AM reset
resetWeeklyTracker ==
    /\ timesheetReceivedThisWeek' = FALSE
    /\ lastTimesheetDate' = NullDate
    /\ hrDeliveredSinceReset' = FALSE
    /\ lastOp' = "resetWeeklyTracker"
    /\ UNCHANGED harness
    /\ UNCHANGED << config, pc, ev, friday, text, hrMessage, error, hr, sent, steps,
                    cronVars >>

Next ==
    \/ \E e \in Events : Message(e)
    \/ \E e \in Events : ResumeNotice(e)
    \/ \E e \in Events : ResumeDownload(e)
    \/ \E e \in Events : ResumeExtract(e)
    \/ \E e \in Events : HrSettle(e)
    \/ \E e \in Events : ResumeHr(e)
    \/ \E e \in Events : ResumeConfirm(e)
    \/ \E e \in Events : ResumeError(e)
    \/ DeadlineCheck
    \/ ReminderSettle
    \/ resetWeeklyTracker

Spec == Init /\ [][Next]_vars

TypeOK ==
    /\ timesheetReceivedThisWeek \in BOOLEAN
    /\ reminders \in 0..MaxReminders
    /\ remindersInFlight \in 0..reminders

(* ------------------------- vocabulary of the claims ------------------- *)
Has(seq, x) == \E i \in 1..Len(seq) : seq[i] = x

Occurrences(seq, x) == Cardinality({i \in 1..Len(seq) : seq[i] = x})

PostsTo(e, channel) == {i \in 1..Len(sent[e]) : sent[e][i].channel = channel}

\* the step taken belongs to the handling of event e
StepOf(e) == pc'[e] # pc[e] \/ hr'[e] # hr[e]

Pending == timesheetReceivedThisWeek = FALSE /\ lastTimesheetDate = NullDate

Satisfied == timesheetReceivedThisWeek = TRUE /\ lastTimesheetDate # NullDate

PdfTyped(f) ==
    \/ f.mimetype = "application/pdf"
    \/ Len(f.name) > 0 /\ LowerTok(f.name[Len(f.name)]) = ".pdf"

Recognised(name) ==
    \E i \in 1..Len(name) : LowerTok(name[i]) \in {"toggl", "track", "summary"}

\* the first PDF-typed file of an event that has one
Candidate(event) ==
    LET i == CHOOSE i \in 1..Len(event.files) :
                 /\ PdfTyped(event.files[i])
                 /\ \A j \in 1..(i - 1) : ~PdfTyped(event.files[j])
    IN event.files[i]

CarriesReport(event) ==
    /\ event.hasFiles
    /\ \E i \in 1..Len(event.files) : PdfTyped(event.files[i])
    /\ Recognised(Candidate(event).name)

PolicyOn == fridayOnlyEnv # "false"

Handled(e) == pc[e] # "idle"

Finished(e) == pc[e] \in {"done", "rejected"}

FilteredOut(e) == Finished(e) /\ sent[e] = <<>> /\ steps[e] = <<>>

FilteredOutNotified(e) ==
    /\ steps[e] = <<>>
    /\ Len(sent[e]) >= 1
    /\ sent[e][1] = Msg(ev[e].channel, FridayNotice)

Accepted(e) == Len(steps[e]) >= 1 /\ steps[e][1] = "retrieve"

RelayOrder ==
    << "retrieve", "parse", "round", "format", "deliverHR", "tracker", "confirm" >>

(* ------------------------------- claims ------------------------------- *)
\* the event was turned away by the intake filter, or its retrieval, text
\* extraction, duration parsing or delivery to HR failed
FailedBeforeRelay(e) ==
    /\ Handled(e)
    /\ \/ ~CarriesReport(ev[e])
       \/ PolicyOn /\ ~friday[e]
       \/ error[e] \in {RetrievalError, ExtractionError, ParseErrorMessage}
       \/ hr[e] = "failed"

\* C1: an event that is rejected by the intake filter, or whose retrieval, text
\* extraction, duration parsing or delivery to HR fails, never sets
\* timesheetReceivedThisWeek: no step of its handling changes the tracker, and the
\* tracker-update step is never among the steps it has begun.
C1_TrackerKeptOnFailure ==
    [][\A e \in Events :
          StepOf(e) =>
            /\ hr'[e] # "delivered" => UNCHANGED tracker
            /\ FailedBeforeRelay(e)' =>
                  /\ UNCHANGED tracker
                  /\ ~Has(steps'[e], "tracker")
                  /\ hr'[e] # "delivered"]_vars

\* an event whose delivery to HR failed is done and the tracker is still unset
C1_Witness ==
    \E e \in Events :
        /\ pc[e] = "done"
        /\ hr[e] = "failed"
        /\ error[e] = DeliveryError
        /\ Pending

\* every step of the event succeeded
Relayed(e) == pc[e] = "done" /\ hr[e] = "delivered" /\ error[e] = ""

\* the summary the data flow prescribes for an extracted text
ExpectedSummary(t) ==
    LET raw == parseTogglPdf(t)
    IN formatTimeMessage(EmployeeName,
           roundToNearestMinute(raw.hours, raw.minutes, raw.seconds), raw.dateRange)

\* C2: an event that passes the intake checks and whose retrieval, extraction,
\* parsing and deliveries all succeed sends exactly one message to HR, whose text is
\* formatTimeMessage(employeeName, roundToNearestMinute(parsed time), dateRange);
\* the step that updates the tracker leaves it SATISFIED; and the steps run in the
\* order retrieve, parse, round, format, deliver to HR, tracker update, confirmation.
C2_RelayPipeline ==
    [][\A e \in Events :
          StepOf(e) =>
          /\ Relayed(e)' =>
                /\ Cardinality(PostsTo(e, HrUserId)') = 1
                /\ Len(sent'[e]) = 2
                /\ sent'[e][1] = Msg(HrUserId, ExpectedSummary(text'[e]))
                /\ sent'[e][2].channel = ev'[e].channel
                /\ steps'[e] = RelayOrder
                /\ CarriesReport(ev'[e])
          /\ (Has(steps'[e], "tracker") /\ ~Has(steps[e], "tracker")) => Satisfied'
       ]_vars

\* the end-to-end scenario of the spec: 5:45:10 with a date range, relayed
C2_Witness ==
    \E e \in Events :
        /\ Relayed(e)
        /\ Satisfied
        /\ sent[e][1].text
             = "Roxie's time for week of 01/05/2024 - 01/11/2024: *5 hours 45 minutes*"

\* C3: once timesheetReceivedThisWeek is true it stays true until
\* resetWeeklyTracker runs, which is the only operation that turns it false; the
\* only operation that turns it true is a handler resuming after a delivered
\* summary.
C3_TrackerTransitions ==
    [][/\ (timesheetReceivedThisWeek /\ ~timesheetReceivedThisWeek')
            => lastOp' = "resetWeeklyTracker"
       /\ (~timesheetReceivedThisWeek /\ timesheetReceivedThisWeek')
            => \E e \in Events :
                   /\ pc[e] = "await_hr" /\ hr[e] = "delivered"
                   /\ pc'[e] = "await_confirm"
       /\ (timesheetReceivedThisWeek /\ lastOp' # "resetWeeklyTracker")
            => timesheetReceivedThisWeek']_vars

\* the deadline check has just run on a satisfied tracker, which is still satisfied
C3_Witness ==
    /\ lastOp = "deadlineCheck"
    /\ Satisfied
    /\ \E e \in Events : pc[e] = "rejected" /\ Has(steps[e], "tracker")

\* C4: the tracker starts PENDING, and resetWeeklyTracker leaves exactly
\* {false, null} whatever the state it ran in, so that running it twice in a row
\* leaves the state one run leaves.
C4_ResetYieldsPending ==
    /\ lastOp = "start" => Pending
    /\ lastOp = "resetWeeklyTracker" => Pending

\* the reset has just run after an event had marked the tracker
C4_Witness ==
    /\ lastOp = "resetWeeklyTracker"
    /\ Pending
    /\ \E e \in Events : Has(steps[e], "tracker")

\* C5 as stated: whenever the deadline check fires while the tracker is PENDING a
\* reminder is sent, while it is SATISFIED none is sent, and the check never
\* modifies the tracker.
C5_ReminderWheneverPending ==
    [][lastOp' = "deadlineCheck" =>
          /\ reminders' = reminders + (IF ~timesheetReceivedThisWeek THEN 1 ELSE 0)
          /\ UNCHANGED tracker]_vars

\* C5 amended: the deadline check sends a reminder exactly when the tracker is
\* PENDING and config.roxieUserId is set; with the tracker SATISFIED, or with no
\* employee user id configured, it sends none; it never modifies the tracker.
C5_ReminderWhenPendingAndConfigured ==
    [][lastOp' = "deadlineCheck" =>
          /\ reminders' = reminders
                + (IF ~timesheetReceivedThisWeek /\ roxieUserId # NotSet THEN 1 ELSE 0)
          /\ remindersInFlight' - remindersInFlight = reminders' - reminders
          /\ UNCHANGED tracker]_vars

\* the deadline check has just sent a reminder on a pending tracker
C5_Witness ==
    /\ lastOp = "deadlineCheck"
    /\ Pending
    /\ reminders >= 1
    /\ remindersInFlight >= 1

\* no files, no PDF-typed file, or a candidate whose name is not recognised
SilentCase(event) == ~CarriesReport(event)

\* C6: an event that carries no files, or no file with mime-type application/pdf
\* or a name ending in .pdf, or whose candidate file name contains none of toggl,
\* track, summary (case-insensitively), makes the handler send nothing to anyone,
\* begin no retrieval and leave the tracker unchanged.
C6_SilentRejection ==
    [][\A e \in Events :
          (StepOf(e) /\ SilentCase(ev'[e])) =>
              /\ sent'[e] = <<>>
              /\ steps'[e] = <<>>
              /\ pc'[e] = "done"
              /\ hr'[e] = "none"
              /\ UNCHANGED << tracker, reminders, remindersInFlight >>]_vars

\* a PDF whose name is not recognised was dropped, although a later file of the
\* same event is a recognised report
C6_Witness ==
    \E e \in Events :
        /\ FilteredOut(e)
        /\ ev[e].hasFiles
        /\ Len(ev[e].files) = 2
        /\ PdfTyped(ev[e].files[1])
        /\ ~Recognised(ev[e].files[1].name)
        /\ Recognised(ev[e].files[2].name)

\* a recognised report arriving on a day the enabled policy excludes
DayRestricted(e) == Handled(e) /\ CarriesReport(ev[e]) /\ PolicyOn /\ ~friday[e]

\* C7 as stated: with the day restriction enabled, a recognised report arriving on
\* another day makes the handler post exactly one notice to the sender's channel
\* and do nothing further.
C7_OneNoticeNothingFurther ==
    \A e \in Events :
        DayRestricted(e) =>
            /\ sent[e] = << Msg(ev[e].channel, FridayNotice) >>
            /\ steps[e] = <<>>

\* C7 amended: with the day restriction enabled, a recognised report arriving on
\* another day makes the handler post exactly one notice stating the restriction
\* to the sender's channel, begin no retrieval, send nothing to HR and no
\* confirmation, and leave the tracker unchanged; the only further post is one
\* error notice to the same channel when the post of the restriction notice fails.
\* With the restriction disabled the day never causes rejection.
C7_DayRestriction ==
    [][\A e \in Events :
          StepOf(e) =>
            /\ DayRestricted(e)' =>
                  /\ Len(sent'[e]) >= 1
                  /\ sent'[e][1] = Msg(ev'[e].channel, FridayNotice)
                  /\ Occurrences(sent'[e], Msg(ev'[e].channel, FridayNotice)) = 1
                  /\ \/ Len(sent'[e]) = 1 /\ error'[e] = ""
                     \/ /\ sent'[e] = << Msg(ev'[e].channel, FridayNotice),
                                         Msg(ev'[e].channel, "Error: " \o DeliveryError) >>
                        /\ error'[e] = DeliveryError
                  /\ steps'[e] = <<>>
                  /\ PostsTo(e, HrUserId)' = {}
                  /\ hr'[e] = "none"
                  /\ UNCHANGED tracker
            /\ (CarriesReport(ev'[e]) /\ ~PolicyOn') => Accepted(e)'
            /\ (CarriesReport(ev'[e]) /\ friday'[e]) => Accepted(e)']_vars

\* a recognised report arrived on a non-Friday with the restriction enabled: its
\* sender got the restriction notice and nothing else happened
C7_Witness ==
    \E e \in Events :
        /\ DayRestricted(e)
        /\ pc[e] = "done"
        /\ sent[e] = << Msg(ev[e].channel, FridayNotice) >>
        /\ Pending

\* C8: each event ends in exactly one of FILTERED_OUT, FILTERED_OUT_NOTIFIED and
\* ACCEPTED, and retrieval and parsing are begun only for an event that has files,
\* a PDF-typed file, a recognised file name, and a day the policy permits.
C8_OnlyAcceptedRetrieved ==
    \A e \in Events :
        /\ (Has(steps[e], "retrieve") \/ Has(steps[e], "parse")) =>
              /\ Accepted(e)
              /\ ev[e].hasFiles /\ Len(ev[e].files) > 0
              /\ CarriesReport(ev[e])
              /\ ~PolicyOn \/ friday[e]
        /\ Finished(e) =>
              /\ FilteredOut(e) \/ FilteredOutNotified(e) \/ Accepted(e)
              /\ ~(FilteredOut(e) /\ FilteredOutNotified(e))
              /\ ~(FilteredOut(e) /\ Accepted(e))
              /\ ~(FilteredOutNotified(e) /\ Accepted(e))
        /\ ~(FilteredOutNotified(e) /\ Accepted(e))

\* an accepted event is being retrieved on a Friday with the restriction enabled
C8_Witness ==
    \E e \in Events :
        /\ Accepted(e)
        /\ Has(steps[e], "parse")
        /\ PolicyOn /\ friday[e]
        /\ Len(ev[e].files) = 2
        /\ ev[e].files[2].mimetype = "application/octet-stream"

\* C9: when retrieval, text extraction or duration parsing fails for an accepted
\* event, the step is not retried, exactly one notice carrying the reason text is
\* posted to the sender's channel, nothing is sent to HR, and the event's handling
\* ends there.
C9_FailureReportedOnce ==
    [][\A e \in Events :
          /\ (StepOf(e)
              /\ error'[e] \in {RetrievalError, ExtractionError, ParseErrorMessage}) =>
                /\ sent'[e] = << Msg(ev'[e].channel, "Error: " \o error'[e]) >>
                /\ PostsTo(e, HrUserId)' = {}
                /\ hr'[e] = "none"
                /\ Occurrences(steps'[e], "retrieve") = 1
                /\ Occurrences(steps'[e], "parse") <= 1
                /\ pc'[e] \in {"await_error", "done", "rejected"}
                /\ error[e] \in {"", error'[e]}
          /\ Finished(e) =>
                /\ pc'[e] = pc[e] /\ sent'[e] = sent[e] /\ steps'[e] = steps[e]
                /\ error'[e] = error[e]]_vars

\* a report without the total hours marker was answered with the parser's message
C9_Witness ==
    \E e \in Events :
        /\ pc[e] = "done"
        /\ error[e] = ParseErrorMessage
        /\ sent[e] = << Msg(ev[e].channel, "Error: Could not find TOTAL HOURS in the PDF") >>

\* C10: when the delivery to HR fails, one notice to the sender is attempted, and
\* if that notice fails too the handler still completes normally: no error leaves
\* the event callback and nothing more is sent.
C10_NoticeFailureNotEscalated ==
    \A e \in Events :
        hr[e] = "failed" =>
            /\ pc[e] # "rejected"
            /\ Len(sent[e]) <= 2

(* ------------------- direct calls of the pure functions ---------------- *)
\* hours above this are represented by 99 and 999 only
MaxCallHours == 3

HoursSamples == (0..MaxCallHours) \cup {99, 999}

\* the program before any event or schedule has run
Quiescent ==
    /\ timesheetReceivedThisWeek = FALSE
    /\ lastTimesheetDate = NullDate
    /\ fridayOnlyEnv = NotSet
    /\ roxieUserId = NotSet
    /\ pc = [e \in Events |-> "idle"]
    /\ ev = [e \in Events |-> NoEvent]
    /\ friday = [e \in Events |-> FALSE]
    /\ text = [e \in Events |-> NoText]
    /\ hrMessage = [e \in Events |-> ""]
    /\ error = [e \in Events |-> ""]
    /\ hr = [e \in Events |-> "none"]
    /\ sent = [e \in Events |-> <<>>]
    /\ steps = [e \in Events |-> <<>>]
    /\ reminders = 0
    /\ remindersInFlight = 0
    /\ hrDeliveredSinceReset = FALSE
    /\ lastOp = "start"

RoundArgs ==
    { [fn |-> "roundToNearestMinute", hours |-> h, minutes |-> m, seconds |-> s] :
        h \in HoursSamples, m \in 0..59, s \in 0..59 }

InitRound == Quiescent /\ arg \in RoundArgs /\ res = <<>>

\* roundToNearestMinute(hours, minutes, seconds)
CallRound ==
    /\ arg.fn = "roundToNearestMinute"
    /\ res = <<>>
    /\ res' = << roundToNearestMinute(arg.hours, arg.minutes, arg.seconds) >>
    /\ UNCHANGED << arg, progVars >>

\* roundToNearestMinute applied to its own result, with seconds = 0
CallRoundAgain ==
    /\ arg.fn = "roundToNearestMinute"
    /\ Len(res) = 1
    /\ res' = Append(res, roundToNearestMinute(res[1].hours, res[1].minutes, 0))
    /\ UNCHANGED << arg, progVars >>

NextRound == CallRound \/ CallRoundAgain

SpecRound == InitRound /\ [][NextRound]_vars

\* C11: for hours in 0..999, minutes and seconds in 0..59, roundToNearestMinute
\* returns (H, M) with 0 <= M <= 59 and H*60 + M equal to hours*60 + minutes when
\* seconds is in 0..29 and to hours*60 + minutes + 1 when seconds is in 30..59;
\* minutes = 59 with seconds >= 30 carries into the hours and gives M = 0.
C11_RoundingLaw ==
    (arg.fn = "roundToNearestMinute" /\ Len(res) >= 1) =>
        LET r == res[1]
            total == arg.hours * 60 + arg.minutes
        IN /\ r.minutes \in 0..59
           /\ r.hours >= 0
           /\ arg.seconds \in 0..29 => r.hours * 60 + r.minutes = total
           /\ arg.seconds \in 30..59 => r.hours * 60 + r.minutes = total + 1
           /\ (arg.minutes = 59 /\ arg.seconds >= 30) =>
                  (r.minutes = 0 /\ r.hours = arg.hours + 1)

\* 999:59:30 was rounded and carried into the hours
C11_Witness ==
    /\ arg.fn = "roundToNearestMinute"
    /\ arg.hours = 999 /\ arg.minutes = 59 /\ arg.seconds = 30
    /\ Len(res) >= 1
    /\ res[1] = [hours |-> 1000, minutes |-> 0]

\* C15: rounding is idempotent: roundToNearestMinute applied to its own result
\* (H, M) with seconds = 0 returns (H, M) again.
C15_RoundingIdempotent ==
    (arg.fn = "roundToNearestMinute" /\ Len(res) = 2) => res[2] = res[1]

\* 1:59:30 was rounded to 2:00, and rounding 2:00:00 gave 2:00 again
C15_Witness ==
    /\ arg.fn = "roundToNearestMinute"
    /\ arg.hours = 1 /\ arg.minutes = 59 /\ arg.seconds = 30
    /\ Len(res) = 2
    /\ res[2] = [hours |-> 2, minutes |-> 0]

\* the label before the value: with and without white space, absent, incomplete
MarkerText(marker) ==
    CASE marker = "TOTAL HOURS" -> << Word("TOTAL"), Ws, Word("HOURS") >>
      [] marker = "totalhours"  -> << Word("total"), Word("hours") >>
      [] marker = "Hours"       -> << Word("Hours") >>
      [] OTHER                  -> << Word("Summary") >>

\* what stands between the label and the value
SepText(sep) ==
    CASE sep = ": "  -> << Colon, Ws >>
      [] sep = " "   -> << Ws >>
      [] sep = " - " -> << Ws, Dash, Ws >>
      [] OTHER       -> << >>

\* what follows the value
RangeText(range) ==
    CASE range = "01/05/2024 - 01/11/2024" ->
             << Ws, DateTok("01/05/2024"), Ws, Dash, Ws, DateTok("01/11/2024") >>
      [] range = "01/05/2024-01/11/2024" ->
             << Ws, DateTok("01/05/2024"), Dash, DateTok("01/11/2024") >>
      [] range = "01/05/2024" -> << Ws, DateTok("01/05/2024") >>
      [] OTHER -> << >>

HourDigits == { <<5>>, <<3, 7>>, <<9, 9, 9>>, <<1, 2, 3, 4>> }
MinuteDigits == { <<1, 5>>, <<5, 9>>, <<7, 5>>, <<5>> }
SecondDigits == { <<4, 5>>, <<1, 0>>, <<9, 9>>, <<3, 0, 7>>, <<3>> }

ParseArgs ==
    { [fn |-> "parseTogglPdf", marker |-> mk, sep |-> sp, h |-> h, m |-> m, s |-> s,
       range |-> rg] :
        mk \in {"TOTAL HOURS", "totalhours", "Hours", "Summary"},
        sp \in {": ", " ", " - ", ""},
        h \in HourDigits, m \in MinuteDigits, s \in SecondDigits,
        rg \in {"01/05/2024 - 01/11/2024", "01/05/2024-01/11/2024", "01/05/2024", ""} }

\* data.text of a document with the given parts
ReportText(a) ==
    MarkerText(a.marker) \o SepText(a.sep)
        \o << Num(a.h), Colon, Num(a.m), Colon, Num(a.s) >> \o RangeText(a.range)

InitParse == Quiescent /\ arg \in ParseArgs /\ res = <<>>

\* parseTogglPdf on the extracted text
CallParse ==
    /\ arg.fn = "parseTogglPdf"
    /\ res = <<>>
    /\ res' = << parseTogglPdf(ReportText(arg)) >>
    /\ UNCHANGED << arg, progVars >>

NextParse == CallParse

SpecParse == InitParse /\ [][NextParse]_vars

\* C12: every RawDuration a successful parse produces has 0 <= hours <= 999,
\* 0 <= minutes <= 59 and 0 <= seconds <= 59, also for texts whose two-digit
\* minute or second fields are 60..99.
C12_RawDurationInRange ==
    (arg.fn = "parseTogglPdf" /\ Len(res) = 1 /\ res[1].ok) =>
        /\ res[1].hours \in 0..999
        /\ res[1].minutes \in 0..59
        /\ res[1].seconds \in 0..59

\* the text holds the label, an admissible separator and an H:MM:SS value
DurationPresent(a) ==
    /\ a.marker \in {"TOTAL HOURS", "totalhours"}
    /\ a.sep \in {": ", " ", ""}
    /\ Len(a.h) \in 1..3
    /\ Len(a.m) = 2
    /\ Len(a.s) >= 2

\* the text holds a MM/DD/YYYY - MM/DD/YYYY range
RangePresent(a) == a.range \in {"01/05/2024 - 01/11/2024", "01/05/2024-01/11/2024"}

\* C14: the date range and the duration are detected independently: a text with
\* the total-duration marker and an H:MM:SS value but no date range parses with
\* the label 'this week'; a text with a date range but no marker fails with the
\* error; the parse fails exactly when the total-duration marker is not matched.
C14_RangeAndDurationIndependent ==
    (arg.fn = "parseTogglPdf" /\ Len(res) = 1) =>
        LET r == res[1]
        IN /\ r.ok <=> DurationPresent(arg)
           /\ ~r.ok => r.message = ParseErrorMessage
           /\ (DurationPresent(arg) /\ ~RangePresent(arg)) => r.dateRange = "this week"
           /\ (DurationPresent(arg) /\ RangePresent(arg)) =>
                  r.dateRange = "01/05/2024 - 01/11/2024"
           /\ (DurationPresent(arg) /\ Len(arg.h) = 2) => r.hours = 37

\* "TOTAL HOURS: 37:15:45" with a single date parsed as {37, 15, 45}, 'this week'
C14_Witness ==
    /\ arg.fn = "parseTogglPdf"
    /\ arg.marker = "TOTAL HOURS" /\ arg.sep = ": " /\ arg.range = "01/05/2024"
    /\ Len(res) = 1
    /\ res[1] = [ok |-> TRUE, hours |-> 37, minutes |-> 15, seconds |-> 45,
                 dateRange |-> "this week", message |-> ""]

FormatArgs ==
    { [fn |-> "formatTimeMessage", hours |-> h, minutes |-> m, dateRange |-> dr] :
        h \in HoursSamples, m \in 0..59,
        dr \in {"this week", "01/05/2024 - 01/11/2024"} }

InitFormat == Quiescent /\ arg \in FormatArgs /\ res = <<>>

\* formatTimeMessage(config.employeeName, roundedTime, dateRange)
CallFormat ==
    /\ arg.fn = "formatTimeMessage"
    /\ res = <<>>
    /\ res' = << formatTimeMessage(EmployeeName,
                     [hours |-> arg.hours, minutes |-> arg.minutes], arg.dateRange) >>
    /\ UNCHANGED << arg, progVars >>

NextFormat == CallFormat

SpecFormat == InitFormat /\ [][NextFormat]_vars

\* "<n> hour" or "<n> minute", singular exactly when n = 1
Clause(n, unit) == ToString(n) \o " " \o unit \o (IF n = 1 THEN "" ELSE "s")

\* the duration phrase for a rounded (hours, minutes)
Phrase(h, m) ==
    IF h = 0 /\ m = 0 THEN "0 minutes"
    ELSE IF h = 0 THEN Clause(m, "minute")
    ELSE IF m = 0 THEN Clause(h, "hour")
    ELSE Clause(h, "hour") \o " " \o Clause(m, "minute")

Summary(dateRange, phrase) ==
    "Roxie's time for week of " \o dateRange \o ": *" \o phrase \o "*"

\* C13: the duration phrase of formatTimeMessage is '0 minutes' when hours and
\* minutes are 0; otherwise the hours clause (omitted when hours = 0) followed by
\* the minutes clause (omitted when minutes = 0), joined by one space, each clause
\* singular exactly when its quantity is 1: (1,0) -> '1 hour', (2,0) -> '2 hours',
\* (0,1) -> '1 minute', (1,1) -> '1 hour 1 minute'.
C13_DurationPhrase ==
    (arg.fn = "formatTimeMessage" /\ Len(res) = 1) =>
        LET h == arg.hours
            m == arg.minutes
            expect(p) == res[1] = Summary(arg.dateRange, p)
        IN /\ expect(Phrase(h, m))
           /\ (h = 0 /\ m = 0) => expect("0 minutes")
           /\ (h = 1 /\ m = 0) => expect("1 hour")
           /\ (h = 2 /\ m = 0) => expect("2 hours")
           /\ (h = 0 /\ m = 1) => expect("1 minute")
           /\ (h = 1 /\ m = 1) => expect("1 hour 1 minute")
           /\ (h = 2 /\ m = 1) => expect("2 hours 1 minute")
           /\ (h = 1 /\ m = 2) => expect("1 hour 2 minutes")

\* (1, 1) for 'this week' was formatted with both clauses singular
C13_Witness ==
    /\ arg.fn = "formatTimeMessage"
    /\ arg.hours = 1 /\ arg.minutes = 1
    /\ Len(res) = 1
    /\ res[1] = "Roxie's time for week of this week: *1 hour 1 minute*"

\* retrieval has begun for the event, and neither its tracker update nor its end
\* has been reached
InProgress(e) == Accepted(e) /\ ~Finished(e) /\ ~Has(steps[e], "tracker")

\* C16: events are processed one at a time: once retrieval has begun for an
\* accepted event, no step of any other event's processing occurs until the first
\* event's tracker update has completed.
C16_OneEventAtATime ==
    [][\A e1, e2 \in Events :
          (e1 # e2 /\ InProgress(e1)) => ~StepOf(e2)]_vars

\* C17: under every interleaving, the deadline check sends no reminder when a
\* summary has been delivered to HR since the last reset, also when it fires
\* between the delivery and the handler setting timesheetReceivedThisWeek.
C17_NoReminderAfterDelivery ==
    [][(lastOp' = "deadlineCheck" /\ hrDeliveredSinceReset)
          => reminders' = reminders]_vars

\* C18: under every interleaving, whenever the tracker is SATISFIED a summary has
\* been delivered to HR since the most recent reset.
C18_SatisfiedImpliesDeliveredSinceReset ==
    timesheetReceivedThisWeek => hrDeliveredSinceReset

ErrorNotice(e) == Msg(ev[e].channel, "Error: " \o error[e])

Confirmation(e) ==
    Msg(ev[e].channel,
        "I've forwarded Roxie's time to Erickia:\n> " \o hrMessage[e])

\* C19: the sender of an event gets at most one of confirmation and error notice,
\* and an error notice is posted only if the event's summary was not delivered to
\* HR and the event did not mark the tracker.
C19_ErrorNoticeOnlyWithoutRelay ==
    \A e \in Events :
        (error[e] # "" /\ Has(sent[e], ErrorNotice(e))) =>
            /\ hr[e] # "delivered"
            /\ ~Has(steps[e], "tracker")
            /\ ~Has(sent[e], Confirmation(e))

\* C20: timesheetReceivedThisWeek is true exactly when lastTimesheetDate is
\* non-null, in every reachable state.
C20_FlagIffDate ==
    timesheetReceivedThisWeek <=> lastTimesheetDate # NullDate

\* a handler has just marked the tracker and awaits its confirmation post, and
\* the other event's handler is suspended too
C20_Witness ==
    /\ Satisfied
    /\ \E e1, e2 \in Events :
          /\ e1 # e2
          /\ pc[e1] = "await_confirm"
          /\ pc[e2] \in {"await_download", "await_extract", "await_hr"}

====
